---- MODULE Spec2Model ----
(***************************************************************************)
(* A model of container_api/client_api.py: the two public operations       *)
(* matching_containers (through _mc_helper) and strateos_id.               *)
(*                                                                         *)
(* A Python str is a sequence of one-character strings.  Optional[T] is a  *)
(* sequence of length 0 (None) or 1 (the value).  The outcome of a call is *)
(* a record [kind, value, exc]: kind "return" with the value returned, or  *)
(* kind "raise" with the name of the exception class in exc.               *)
(***************************************************************************)
EXTENDS Integers, Sequences, FiniteSets, TLC

VARIABLES
    container_spec,    \* the caller's spec object: [queryString, prefixMap]
    VENDOR_STRINGS,    \* the module-level vendor list
    pc,                \* position of the caller / of _mc_helper
    addl_conditions,   \* argument of the call in progress (Optional[str])
    base_url,          \* argument of the call in progress
    kb_name,           \* argument of the call in progress
    object,            \* local of _mc_helper: the class expression
    instances,         \* local of _mc_helper: Optional response
    pending,           \* exception propagating out of the with block ("" = none)
    open_clients,      \* ApiClient objects entered and not yet exited
    requests,          \* requests the endpoint received during the current call
    errors_logged,     \* logger.error records written during the current call
    result,            \* outcome of matching_containers
    uri,               \* argument of the last strateos_id call (Optional[str])
    sid,               \* outcome of the last strateos_id call
    swaps,             \* number of reorderings applied to the vendor list
    calls              \* number of matching_containers calls made so far

vars == <<container_spec, VENDOR_STRINGS, pc, addl_conditions, base_url, kb_name,
          object, instances, pending, open_clients, requests, errors_logged,
          result, uri, sid, swaps, calls>>

mc_vars == <<container_spec, pc, addl_conditions, base_url, kb_name, object,
             instances, pending, open_clients, requests, errors_logged, result>>

-----------------------------------------------------------------------------
(* Bounds of the model *)

\* longest class expression the caller passes; an additional condition is one
\* character shorter at most
MaxQLen == 2
\* longest instance list the endpoint answers with
MaxInstances == 2
\* a URI given to strateos_id is the concatenation of at most MaxTokens tokens
MaxTokens == 3
\* a URI of the reordering specification has at most MaxReorderTokens tokens
MaxReorderTokens == 1
\* adjacent transpositions applied to the vendor list in the reordering specification
MaxSwaps == 1
\* calls of matching_containers the caller makes in one run
MaxCalls == 2

-----------------------------------------------------------------------------
(* Outcomes and Python values *)

None == <<>>
Some(v) == <<v>>
NoOutcome == [kind |-> "none", value |-> <<>>, exc |-> ""]
Return(v) == [kind |-> "return", value |-> v, exc |-> ""]
Raise(e) == [kind |-> "raise", value |-> <<>>, exc |-> e]

RECURSIVE Flatten(_)
Flatten(ss) == IF ss = <<>> THEN <<>> ELSE Head(ss) \o Flatten(Tail(ss))

SeqsUpTo(S, n) == UNION {[1..k -> S] : k \in 0..n}

-----------------------------------------------------------------------------
(* str methods and library functions used by strateos_id *)

startswith(s, x) == Len(x) <= Len(s) /\ SubSeq(s, 1, Len(x)) = x

\* str.removeprefix
removeprefix(s, x) == IF startswith(s, x) THEN SubSeq(s, Len(x) + 1, Len(s)) ELSE s

\* str.rfind of one character, 1-based; 0 when absent
rfind(s, c) ==
    LET I == {i \in 1..Len(s) : s[i] = c}
    IN  IF I = {} THEN 0 ELSE CHOOSE i \in I : \A j \in I : j <= i

\* os.path.basename (posixpath): p[p.rfind('/') + 1:]
basename(p) == SubSeq(p, rfind(p, "/") + 1, Len(p))

\* html.escape(x) (quote=True), one character at a time: & first, then < > " '
escape_char(c) ==
    CASE c = "&" -> <<"&", "a", "m", "p", ";">>
      [] c = "<" -> <<"&", "l", "t", ";">>
      [] c = ">" -> <<"&", "g", "t", ";">>
      [] c = "\"" -> <<"&", "q", "u", "o", "t", ";">>
      [] c = "'" -> <<"&", "#", "x", "2", "7", ";">>
      [] OTHER -> <<c>>

\* .replace(" ", "%20") on one character
encode_space(c) == IF c = " " THEN <<"%", "2", "0">> ELSE <<c>>

\* html.escape(x).replace(" ", "%20")
escape_vendor(x) ==
    LET escaped == Flatten([i \in 1..Len(x) |-> escape_char(x[i])])
    IN  Flatten([i \in 1..Len(escaped) |-> encode_space(escaped[i])])

\* the vendor list with "Fisher Scientific" entered where "ThermoFisher" stands
VENDOR_NAMES_prefixing ==
    << <<"F","i","s","h","e","r">>,
       <<"F","i","s","h","e","r"," ","S","c","i","e","n","t","i","f","i","c">>,
       <<"E","p","p","e","n","d","o","r","f">>,
       <<"C","o","s","t","a","r">>,
       <<"U","S","A"," ","S","c","i","e","n","t","i","f","i","c">>,
       <<"M","e","s","o","s","c","a","l","e">>,
       <<"C","h","e","m","s","p","e","e","d">>,
       <<"E","&","K"," ","S","c","i","e","n","t","i","f","i","c">>,
       <<"S","u","m","i","t","o","m","o"," ","B","a","k","e","l","i","t","e"," ","C","o",".">>,
       <<"P","e","r","k","i","n","E","l","m","e","r">>,
       <<"L","a","b","c","y","t","e">>,
       <<"G","r","e","i","n","e","r">>,
       <<"C","o","r","n","i","n","g">>,
       <<"A","x","y","g","e","n">>,
       <<"T","r","a","d","e","w","i","n","d","s">> >>

\* the literal list of vendor names, in declared order
VENDOR_NAMES ==
    << <<"F","i","s","h","e","r">>,
       <<"T","h","e","r","m","o","F","i","s","h","e","r">>,
       <<"E","p","p","e","n","d","o","r","f">>,
       <<"C","o","s","t","a","r">>,
       <<"U","S","A"," ","S","c","i","e","n","t","i","f","i","c">>,
       <<"M","e","s","o","s","c","a","l","e">>,
       <<"C","h","e","m","s","p","e","e","d">>,
       <<"E","&","K"," ","S","c","i","e","n","t","i","f","i","c">>,
       <<"S","u","m","i","t","o","m","o"," ","B","a","k","e","l","i","t","e"," ","C","o",".">>,
       <<"P","e","r","k","i","n","E","l","m","e","r">>,
       <<"L","a","b","c","y","t","e">>,
       <<"G","r","e","i","n","e","r">>,
       <<"C","o","r","n","i","n","g">>,
       <<"A","x","y","g","e","n">>,
       <<"T","r","a","d","e","w","i","n","d","s">> >>

\* the value VENDOR_STRINGS is bound to when the module is imported
VendorStringsDeclared == [i \in 1..Len(VENDOR_NAMES) |-> escape_vendor(VENDOR_NAMES[i])]

\* PREFIX_SPLITER with a lazy first group, ".*?#(.*)": the first "#" is matched
PREFIX_SPLITER_lazy(suffix) ==
    LET H == {i \in 1..Len(suffix) : suffix[i] = "#"}
    IN  IF H = {} THEN None
        ELSE Some(SubSeq(suffix, (CHOOSE i \in H : \A j \in H : i <= j) + 1, Len(suffix)))

\* re.match(PREFIX_SPLITER, suffix) for the pattern ".*#(.*)": None, or group(1).
\* "." matches every character but a line feed, so both ".*" stay on the first
\* line; the first ".*" is greedy, so the "#" matched is the last one of that line.
PREFIX_SPLITER(suffix) ==
    LET N == {i \in 1..Len(suffix) : suffix[i] = "\n"}
        line == IF N = {} THEN suffix
                ELSE SubSeq(suffix, 1, (CHOOSE i \in N : \A j \in N : i <= j) - 1)
        k == rfind(line, "#")
    IN  IF k = 0 THEN None ELSE Some(SubSeq(line, k + 1, Len(line)))

\* vendor_loop that also wants the remainder to be non-empty
RECURSIVE vendor_loop_nonempty(_, _, _)
vendor_loop_nonempty(table, vendor_and_id, i) ==
    IF i > Len(table) THEN Raise("ValueError")
    ELSE LET trimmed == removeprefix(vendor_and_id, table[i])
         IN  IF trimmed # vendor_and_id /\ trimmed # <<>> THEN Return(trimmed)
             ELSE vendor_loop_nonempty(table, vendor_and_id, i + 1)

\* the for loop of strateos_id from entry i of the list on, and the raise after it
RECURSIVE vendor_loop(_, _, _)
vendor_loop(table, vendor_and_id, i) ==
    IF i > Len(table) THEN Raise("ValueError")
    ELSE LET trimmed == removeprefix(vendor_and_id, table[i])
         IN  IF trimmed # vendor_and_id THEN Return(trimmed)
             ELSE vendor_loop(table, vendor_and_id, i + 1)

\* strateos_id(uri) with the vendor list as it stands; None.group(1) is an
\* AttributeError
strateos_id(table, u) ==
    LET suffix == basename(u)
        m == PREFIX_SPLITER(suffix)
    IN  IF m = None THEN Raise("AttributeError")
        ELSE vendor_loop(table, m[1], 1)

-----------------------------------------------------------------------------
(* Inputs of strateos_id *)

\* pieces URIs are assembled from: every entry of the vendor list, a raw
\* (unescaped) vendor name, a proper prefix of an entry, the two separators
\* and two catalog-id characters
Tokens ==
    {VendorStringsDeclared[i] : i \in 1..Len(VendorStringsDeclared)}
    \cup {VENDOR_NAMES[5], <<"T","h","e","r","m","o">>, <<"/">>, <<"#">>, <<"A">>, <<"1">>}

URIs(n) == {Flatten(ts) : ts \in SeqsUpTo(Tokens, n)}

\* the URIs of the documented examples
ExampleFisher == <<"h", "t", "t", "p", "s", ":", "/", "/", "e", "x", "a", "m", "p", "l", "e", ".", "o", "r", "g", "/", "c", "a", "t", "#", "F", "i", "s", "h", "e", "r", "A", "B", "C", "1", "2", "3">>
ExampleCorning == <<"h", "t", "t", "p", "s", ":", "/", "/", "e", "x", "a", "m", "p", "l", "e", ".", "o", "r", "g", "/", "c", "a", "t", "#", "C", "o", "r", "n", "i", "n", "g", "9", "6", "W", "e", "l", "l", "P", "l", "a", "t", "e">>
ExampleUnknown == <<"h", "t", "t", "p", "s", ":", "/", "/", "e", "x", "a", "m", "p", "l", "e", ".", "o", "r", "g", "/", "c", "a", "t", "#", "U", "n", "k", "n", "o", "w", "n", "V", "e", "n", "d", "o", "r", "X", "Y", "Z">>
ExampleNoHash == <<"h", "t", "t", "p", "s", ":", "/", "/", "e", "x", "a", "m", "p", "l", "e", ".", "o", "r", "g", "/", "c", "a", "t", "N", "o", "H", "a", "s", "h", "H", "e", "r", "e">>
ExampleURIs == {ExampleFisher, ExampleCorning, ExampleUnknown, ExampleNoHash}

\* the URIs the reordering specification draws from: one "#"-fragment each
ReorderURIs == {<<"h", "/", "c", "#">> \o f : f \in URIs(MaxReorderTokens)}

-----------------------------------------------------------------------------
(* Inputs of matching_containers and answers of the endpoint *)

QChars == {"C", " "}
QueryStrings == SeqsUpTo(QChars, MaxQLen) \ {<<>>}
PrefixMaps == {"{}", "{cont: https://sift.net/container-ontology/container-ontology#}"}
Conditions == {None} \cup {Some(s) : s \in SeqsUpTo(QChars, MaxQLen - 1)}
BaseUrls == {"http://localhost:8080", "http://owlery.example:8080"}
KbNames == {"sd2e-container-catalogs", "other-kb"}

\* instance URIs the endpoint may list: a known vendor, an unknown vendor, and
\* a URI with no fragment
InstanceURIs ==
    { <<"h", "/", "c", "#">> \o VendorStringsDeclared[1] \o <<"A", "1">>,
      <<"h", "/", "c", "#", "X", "1">>,
      <<"h", "/", "c", "1">> }

\* a successful answer of kbs_kb_instances_get
Responses == {[has_instance |-> L] : L \in SeqsUpTo(InstanceURIs, MaxInstances)}

\* exceptions kbs_kb_instances_get raises that are not owlery_client.ApiException
OtherExceptions == {"MaxRetryError"}

-----------------------------------------------------------------------------
(* matching_containers / _mc_helper *)

\* build_object with the test "if addl_conditions:" in place of "is not None"
build_object_truthy(query, addl) ==
    IF addl # None /\ addl[1] # <<>>
    THEN query \o <<" ", "a", "n", "d", " ">> \o addl[1]
    ELSE query

\* lines 88-92: object = container_spec; if addl_conditions is not None: object += " and " + addl_conditions
build_object(query, addl) ==
    IF addl # None THEN query \o <<" ", "a", "n", "d", " ">> \o addl[1] ELSE query

\* lines 98-104: the arguments of kbs_kb_instances_get
request(kb, obj, prefixes) ==
    [kb |-> kb, object |-> obj, prefixes |-> prefixes, direct |-> FALSE, include_deprecated |-> TRUE]

\* has_instance with the list rebuilt without repeated elements
RECURSIVE unique_from(_, _, _)
unique_from(L, i, acc) ==
    IF i > Len(L) THEN acc
    ELSE IF \E j \in 1..Len(acc) : acc[j] = L[i] THEN unique_from(L, i + 1, acc)
    ELSE unique_from(L, i + 1, Append(acc, L[i]))

has_instance_unique(inst) ==
    IF inst = None THEN Raise("TypeError")
    ELSE Return(unique_from(inst[1].has_instance, 1, <<>>))

\* line 111: instances["has_instance"]; None is not subscriptable
has_instance(inst) ==
    IF inst = None THEN Raise("TypeError") ELSE Return(inst[1].has_instance)

\* matching_containers is called: it passes container_spec.queryString and
\* container_spec.prefixMap to _mc_helper, which sets instances = None
Call ==
    /\ pc \in {"idle", "done"}
    /\ calls < MaxCalls
    /\ \E a \in Conditions, u \in BaseUrls, k \in KbNames :
          /\ addl_conditions' = a
          /\ base_url' = u
          /\ kb_name' = k
    /\ object' = <<>>
    /\ instances' = None
    /\ pending' = ""
    /\ requests' = <<>>
    /\ errors_logged' = 0
    /\ result' = NoOutcome
    /\ uri' = None
    /\ sid' = NoOutcome
    /\ pc' = "with"
    /\ calls' = calls + 1
    /\ UNCHANGED <<container_spec, VENDOR_STRINGS, open_clients, swaps>>

\* with owlery_client.ApiClient(configuration) as api_client
EnterClient ==
    /\ pc = "with"
    /\ open_clients' = open_clients + 1
    /\ pc' = "build"
    /\ UNCHANGED <<container_spec, VENDOR_STRINGS, addl_conditions, base_url, kb_name,
                   object, instances, pending, requests, errors_logged, result,
                   uri, sid, swaps, calls>>

\* BuildObject appending to the caller's query string in place
BuildObject_inplace ==
    /\ pc = "build"
    /\ object' = build_object(container_spec.queryString, addl_conditions)
    /\ container_spec' = [container_spec EXCEPT !.queryString = object']
    /\ pc' = "try"
    /\ UNCHANGED <<VENDOR_STRINGS, addl_conditions, base_url, kb_name,
                   instances, pending, open_clients, requests, errors_logged,
                   result, uri, sid, swaps, calls>>

\* the body of the with block up to the try statement
BuildObject ==
    /\ pc = "build"
    /\ object' = build_object(container_spec.queryString, addl_conditions)
    /\ pc' = "try"
    /\ UNCHANGED <<container_spec, VENDOR_STRINGS, addl_conditions, base_url, kb_name,
                   instances, pending, open_clients, requests, errors_logged,
                   result, uri, sid, swaps, calls>>

\* Request that sends the request once more after an ApiException
Request_retry ==
    /\ pc = "try"
    /\ requests' = Append(requests, request(kb_name, object, container_spec.prefixMap))
    /\ \/ \E r \in Responses :
             /\ instances' = Some(r)
             /\ pc' = "exit"
             /\ UNCHANGED <<errors_logged, pending>>
       \/ /\ errors_logged' = errors_logged + 1
          /\ pc' = IF errors_logged = 0 THEN "try" ELSE "exit"
          /\ UNCHANGED <<instances, pending>>
       \/ \E e \in OtherExceptions :
             /\ pending' = e
             /\ pc' = "exit"
             /\ UNCHANGED <<instances, errors_logged>>
    /\ UNCHANGED <<container_spec, VENDOR_STRINGS, addl_conditions, base_url, kb_name,
                   object, open_clients, result, uri, sid, swaps, calls>>

\* the try statement: the request is sent and answered, or raises ApiException
\* (caught and logged), or raises another exception (not caught)
Request ==
    /\ pc = "try"
    /\ requests' = Append(requests, request(kb_name, object, container_spec.prefixMap))
    /\ \/ \E r \in Responses :
             /\ instances' = Some(r)
             /\ UNCHANGED <<errors_logged, pending>>
       \/ /\ errors_logged' = errors_logged + 1
          /\ UNCHANGED <<instances, pending>>
       \/ \E e \in OtherExceptions :
             /\ pending' = e
             /\ UNCHANGED <<instances, errors_logged>>
    /\ pc' = "exit"
    /\ UNCHANGED <<container_spec, VENDOR_STRINGS, addl_conditions, base_url, kb_name,
                   object, open_clients, result, uri, sid, swaps, calls>>

\* ExitClient closing the client only when no exception is propagating
ExitClient_leak ==
    /\ pc = "exit"
    /\ open_clients' = IF pending # "" THEN open_clients ELSE open_clients - 1
    /\ IF pending # ""
       THEN /\ result' = Raise(pending)
            /\ pc' = "done"
       ELSE /\ result' = result
            /\ pc' = "after"
    /\ UNCHANGED <<container_spec, VENDOR_STRINGS, addl_conditions, base_url, kb_name,
                   object, instances, pending, requests, errors_logged, uri, sid, swaps, calls>>

\* leaving the with block, normally or by an exception: ApiClient.__exit__
ExitClient ==
    /\ pc = "exit"
    /\ open_clients' = open_clients - 1
    /\ IF pending # ""
       THEN /\ result' = Raise(pending)
            /\ pc' = "done"
       ELSE /\ result' = result
            /\ pc' = "after"
    /\ UNCHANGED <<container_spec, VENDOR_STRINGS, addl_conditions, base_url, kb_name,
                   object, instances, pending, requests, errors_logged, uri, sid, swaps, calls>>

\* the statements after the with block: the two debug lines and the return
ReturnInstances ==
    /\ pc = "after"
    /\ result' = has_instance(instances)
    /\ pc' = "done"
    /\ UNCHANGED <<container_spec, VENDOR_STRINGS, addl_conditions, base_url, kb_name,
                   object, instances, pending, open_clients, requests, errors_logged,
                   uri, sid, swaps, calls>>

\* the caller passes one of the returned instance URIs to strateos_id
StrateosIdOfInstance ==
    /\ pc = "done"
    /\ result.kind = "return"
    /\ \E i \in 1..Len(result.value) :
          /\ uri' = Some(result.value[i])
          /\ sid' = strateos_id(VENDOR_STRINGS, result.value[i])
    /\ UNCHANGED <<mc_vars, VENDOR_STRINGS, swaps, calls>>

Init ==
    /\ container_spec \in [queryString : QueryStrings, prefixMap : PrefixMaps]
    /\ VENDOR_STRINGS = VendorStringsDeclared
    /\ pc = "idle"
    /\ addl_conditions = None
    /\ base_url = ""
    /\ kb_name = ""
    /\ object = <<>>
    /\ instances = None
    /\ pending = ""
    /\ open_clients = 0
    /\ requests = <<>>
    /\ errors_logged = 0
    /\ result = NoOutcome
    /\ uri = None
    /\ sid = NoOutcome
    /\ swaps = 0
    /\ calls = 0

Next ==
    \/ Call
    \/ EnterClient
    \/ BuildObject
    \/ Request
    \/ ExitClient
    \/ ReturnInstances
    \/ StrateosIdOfInstance

Spec == Init /\ [][Next]_vars

-----------------------------------------------------------------------------
(* strateos_id as a pure function of its argument *)

\* strateos_id is applied to the URI drawn by InitSid
StrateosId ==
    /\ pc = "sid"
    /\ sid' = strateos_id(VENDOR_STRINGS, uri[1])
    /\ pc' = "sid_done"
    /\ UNCHANGED <<container_spec, VENDOR_STRINGS, addl_conditions, base_url, kb_name,
                   object, instances, pending, open_clients, requests, errors_logged,
                   result, uri, swaps, calls>>

InitSid ==
    /\ container_spec = [queryString |-> <<"C">>, prefixMap |-> "{}"]
    /\ VENDOR_STRINGS = VendorStringsDeclared
    /\ pc = "sid"
    /\ addl_conditions = None
    /\ base_url = ""
    /\ kb_name = ""
    /\ object = <<>>
    /\ instances = None
    /\ pending = ""
    /\ open_clients = 0
    /\ requests = <<>>
    /\ errors_logged = 0
    /\ result = NoOutcome
    /\ uri \in {Some(u) : u \in URIs(MaxTokens) \cup ExampleURIs}
    /\ sid = NoOutcome
    /\ swaps = 0
    /\ calls = 0

NextSid == StrateosId

SpecSid == InitSid /\ [][NextSid]_vars

-----------------------------------------------------------------------------
(* strateos_id under a reordered vendor list *)

\* entries i and i+1 of the vendor list change places
SwapVendors ==
    /\ pc = "sid"
    /\ swaps < MaxSwaps
    /\ \E i \in 1..(Len(VENDOR_STRINGS) - 1) :
          VENDOR_STRINGS' = [VENDOR_STRINGS EXCEPT ![i] = VENDOR_STRINGS[i + 1],
                                                   ![i + 1] = VENDOR_STRINGS[i]]
    /\ swaps' = swaps + 1
    /\ UNCHANGED <<mc_vars, uri, sid, calls>>

InitReorder ==
    /\ container_spec = [queryString |-> <<"C">>, prefixMap |-> "{}"]
    /\ VENDOR_STRINGS = VendorStringsDeclared
    /\ pc = "sid"
    /\ addl_conditions = None
    /\ base_url = ""
    /\ kb_name = ""
    /\ object = <<>>
    /\ instances = None
    /\ pending = ""
    /\ open_clients = 0
    /\ requests = <<>>
    /\ errors_logged = 0
    /\ result = NoOutcome
    /\ uri \in {Some(u) : u \in ReorderURIs}
    /\ sid = NoOutcome
    /\ swaps = 0
    /\ calls = 0

NextReorder == SwapVendors \/ StrateosId

SpecReorder == InitReorder /\ [][NextReorder]_vars

-----------------------------------------------------------------------------
(* What the claims speak of, stated without the operators of the model *)

HasChar(s, c) == \E i \in 1..Len(s) : s[i] = c

\* the text after the last c of s; s itself when s holds no c
RECURSIVE AfterLast(_, _)
AfterLast(s, c) == IF HasChar(s, c) THEN AfterLast(Tail(s), c) ELSE s

\* the text after the last "/"
LocalName(u) == AfterLast(u, "/")

\* the text after the last "#" of the local name
Fragment(u) == AfterLast(LocalName(u), "#")

IsPrefixOf(x, s) == Len(x) <= Len(s) /\ \A i \in 1..Len(x) : x[i] = s[i]

\* the positions of the vendor list whose entry is a prefix of s
PrefixingEntries(table, s) == {i \in 1..Len(table) : IsPrefixOf(table[i], s)}

Least(I) == CHOOSE i \in I : \A j \in I : i <= j

AndText == <<" ", "a", "n", "d", " ">>

-----------------------------------------------------------------------------
(* C1 *)

\* C1: when the endpoint call raised the API exception (it was caught and
\* logged), matching_containers completes by returning a value, not by raising.
C1_ApiFailureDoesNotRaise ==
    (pc = "done" /\ errors_logged > 0) => result.kind = "return"

-----------------------------------------------------------------------------
(* C2 *)

\* C2: for a URI whose local name holds no "#", strateos_id fails with the
\* extraction error (ValueError), the error it raises for an unknown vendor.
C2_NoFragmentIsExtractionError ==
    (pc = "sid_done" /\ ~HasChar(LocalName(uri[1]), "#")) => sid = Raise("ValueError")

-----------------------------------------------------------------------------
(* C3 *)

\* C3: every request of a call carries exactly original + " and " +
\* addl_conditions when addl_conditions is supplied (the empty string
\* included), and exactly the caller's query string when it is omitted.
C3_ExpressionSent ==
    \A i \in 1..Len(requests) :
        requests[i].object =
            IF addl_conditions = None
            THEN container_spec.queryString
            ELSE container_spec.queryString \o AndText \o addl_conditions[1]

\* a request was sent for a call that supplied the empty string as addl_conditions
C3_Witness ==
    /\ pc = "done"
    /\ addl_conditions = Some(<<>>)
    /\ Len(requests) = 1
    /\ requests[1].object = container_spec.queryString \o AndText
    /\ container_spec.queryString = <<"C", " ">>

-----------------------------------------------------------------------------
(* C4 *)

\* C4: when the endpoint answered with a response whose has_instance field is
\* the list L, the call returns L: same length, same element at every position.
C4_ReturnsInstanceList ==
    (pc = "done" /\ instances # None) =>
        /\ result.kind = "return"
        /\ Len(result.value) = Len(instances[1].has_instance)
        /\ \A i \in 1..Len(result.value) : result.value[i] = instances[1].has_instance[i]

\* a call returned a list that holds the same URI twice
C4_Witness ==
    /\ pc = "done"
    /\ instances # None
    /\ result.kind = "return"
    /\ Len(result.value) = 2
    /\ result.value[1] = result.value[2]

-----------------------------------------------------------------------------
(* C5 *)

\* C5: for a URI whose local name has a "#"-fragment F of which some entry of
\* the vendor list is a prefix, strateos_id returns F without the first such
\* entry: entry + result = F.  The two documented examples give "ABC123" and
\* "96WellPlate".
C5_StripsFirstVendor ==
    (pc = "sid_done" /\ HasChar(LocalName(uri[1]), "#")
        /\ PrefixingEntries(VENDOR_STRINGS, Fragment(uri[1])) # {}) =>
        LET F == Fragment(uri[1])
            x == VENDOR_STRINGS[Least(PrefixingEntries(VENDOR_STRINGS, F))]
        IN  /\ sid.kind = "return"
            /\ x \o sid.value = F
            /\ uri[1] = ExampleFisher => sid.value = <<"A", "B", "C", "1", "2", "3">>
            /\ uri[1] = ExampleCorning =>
                  sid.value = <<"9", "6", "W", "e", "l", "l", "P", "l", "a", "t", "e">>

\* strateos_id was applied to a URI with two "#" in its local name and stripped
\* the vendor from the text after the last one
C5_Witness ==
    /\ pc = "sid_done"
    /\ uri = Some(<<"#", "#">> \o VendorStringsDeclared[13])
    /\ sid = Return(<<>>)

-----------------------------------------------------------------------------
(* C6 *)

\* C6: for a URI whose local name has a "#"-fragment F, strateos_id raises the
\* extraction error exactly when no entry of the vendor list is a prefix of F,
\* and returns otherwise; a fragment that is a vendor name gives the empty string.
C6_ErrorIffNoVendor ==
    (pc = "sid_done" /\ HasChar(LocalName(uri[1]), "#")) =>
        LET F == Fragment(uri[1])
        IN  /\ sid = Raise("ValueError") <=> PrefixingEntries(VENDOR_STRINGS, F) = {}
            /\ sid.kind = "return" <=> PrefixingEntries(VENDOR_STRINGS, F) # {}
            /\ (\E i \in 1..Len(VENDOR_STRINGS) : VENDOR_STRINGS[i] = F) => sid = Return(<<>>)

\* strateos_id was applied to a URI whose fragment is exactly a vendor name
C6_Witness ==
    /\ pc = "sid_done"
    /\ uri = Some(<<"/", "#">> \o VendorStringsDeclared[8])
    /\ sid = Return(<<>>)

-----------------------------------------------------------------------------
(* C7 *)

\* C7: no entry of the vendor list is a prefix of another entry; at most one
\* entry is a prefix of a fragment; and strateos_id under a reordered list
\* gives what it gives under the declared order.
C7_OrderIndependent ==
    /\ \A i, j \in 1..Len(VENDOR_STRINGS) :
          i # j => ~IsPrefixOf(VENDOR_STRINGS[i], VENDOR_STRINGS[j])
    /\ pc = "sid_done" =>
          /\ Cardinality(PrefixingEntries(VENDOR_STRINGS, Fragment(uri[1]))) <= 1
          /\ sid = strateos_id(VendorStringsDeclared, uri[1])

\* strateos_id stripped the first declared vendor after it had been moved to
\* the second place of the list
C7_Witness ==
    /\ pc = "sid_done"
    /\ swaps = 1
    /\ VENDOR_STRINGS[2] = VendorStringsDeclared[1]
    /\ IsPrefixOf(VendorStringsDeclared[1], Fragment(uri[1]))
    /\ sid.kind = "return"

-----------------------------------------------------------------------------
(* C8 *)

\* C8: no step of a call to matching_containers or strateos_id changes the
\* caller's spec (query string and prefix map) or the vendor list.
C8_CallsLeaveSpecAndTable ==
    [][container_spec' = container_spec /\ VENDOR_STRINGS' = VENDOR_STRINGS]_vars

\* the second call of a run, made with addl_conditions, has sent its request
\* and returned, the expression holds " and " once, and strateos_id has run on
\* one of the instances returned
C8_Witness ==
    /\ calls = 2
    /\ pc = "done"
    /\ addl_conditions = Some(<<"C">>)
    /\ Len(requests) = 1
    /\ requests[1].object = container_spec.queryString \o AndText \o <<"C">>
    /\ sid # NoOutcome

-----------------------------------------------------------------------------
(* C9 *)

\* C9: a call holds exactly one open client while it is inside the with block
\* and none outside it: none before the result is read (pc = "after") and none
\* once the call has returned or raised, whichever way it left the block.
C9_ClientReleased ==
    /\ pc \in {"build", "try", "exit"} => open_clients = 1
    /\ pc \in {"idle", "with", "after", "done"} => open_clients = 0
    /\ result.kind # "none" => open_clients = 0

\* the call ended with the exception the handler does not catch
C9_Witness ==
    /\ pc = "done"
    /\ result = Raise("MaxRetryError")
    /\ Len(requests) = 1
    /\ open_clients = 0

-----------------------------------------------------------------------------
(* C10 *)

\* C10: a call sends no request before its try statement and exactly one from
\* then on, whether the request was answered or raised.
C10_OneRequestPerCall ==
    /\ pc \in {"with", "build", "try"} => Len(requests) = 0
    /\ pc \in {"exit", "after", "done"} => Len(requests) = 1

\* the call ended after a request that raised the API exception
C10_Witness ==
    /\ pc = "done"
    /\ errors_logged = 1
    /\ instances = None
    /\ Len(requests) = 1

====
